---- MODULE Spec2Model ----
(***************************************************************************)
(* Drone FAQ chatbot: the matching engine (lexical similarity + keyword    *)
(* overlap, weighted), best-match selection, the confidence threshold and  *)
(* the entry points built around them (app.py, iot_chatbot.py,             *)
(* netlify/functions/chat.py).                                             *)
(*                                                                         *)
(* Text is a sequence of one-character strings.  Scores are IEEE-754       *)
(* binary64 values, computed with round-to-nearest-even exactly as CPython *)
(* computes them: a float is a record [m, e] of a 53-bit mantissa held in  *)
(* four base-2^15 limbs (least significant first) and an exponent, with    *)
(* value m * 2^e; zero is [m |-> <<0,0,0,0>>, e |-> 0].                    *)
(***************************************************************************)
EXTENDS Integers, Sequences, FiniteSets, TLC

\* ------------------------------------------------------------------------
\* Bounds of the model
\* ------------------------------------------------------------------------
MaxLen == 3

MaxEntries == 2

\* inputs an engine is given after its first one
MaxServed == 2

\* clients of the Flask application with a request in progress at a time
MaxCallers == 2

\* ------------------------------------------------------------------------
\* Text: str.lower, str.strip, the "in" operator on strings
\* ------------------------------------------------------------------------
Alphabet == {"a", "B", " "}

Whitespace == {" "}

\* the letters str.lower changes in the texts of the model
Lowercase ==
  "A" :> "a" @@ "B" :> "b" @@ "C" :> "c" @@ "D" :> "d" @@ "E" :> "e" @@ "F" :> "f" @@
  "G" :> "g" @@ "H" :> "h" @@ "I" :> "i" @@ "J" :> "j" @@ "K" :> "k" @@ "L" :> "l" @@
  "M" :> "m" @@ "N" :> "n" @@ "O" :> "o" @@ "P" :> "p" @@ "Q" :> "q" @@ "R" :> "r" @@
  "S" :> "s" @@ "T" :> "t" @@ "U" :> "u" @@ "V" :> "v" @@ "W" :> "w" @@ "X" :> "x" @@
  "Y" :> "y" @@ "Z" :> "z"

LowerChar(c) == IF c \in DOMAIN Lowercase THEN Lowercase[c] ELSE c

lower(s) == [i \in 1..Len(s) |-> LowerChar(s[i])]

RECURSIVE lstrip(_)
lstrip(s) == IF s # <<>> /\ Head(s) \in Whitespace THEN lstrip(Tail(s)) ELSE s

RECURSIVE rstrip(_)
rstrip(s) ==
  IF s # <<>> /\ s[Len(s)] \in Whitespace THEN rstrip(SubSeq(s, 1, Len(s) - 1)) ELSE s

strip(s) == rstrip(lstrip(s))

\* Python's `sub in s` for strings: sub occurs as a contiguous substring
Contains(sub, s) ==
  \E i \in 0..(Len(s) - Len(sub)) : SubSeq(s, i + 1, i + Len(sub)) = sub

\* ------------------------------------------------------------------------
\* binary64 arithmetic
\* ------------------------------------------------------------------------
LimbBits == 15

Pow2Table ==
  <<1, 2, 4, 8, 16, 32, 64, 128, 256, 512, 1024, 2048, 4096, 8192, 16384, 32768>>

\* 2^n for 0 <= n <= LimbBits
Pow2(n) == Pow2Table[n + 1]

Base == 32768

MantBits == 53

Limb(N, i) == IF i >= 1 /\ i <= Len(N) THEN N[i] ELSE 0

RECURSIVE SmallBitLen(_)
SmallBitLen(x) == IF x = 0 THEN 0 ELSE 1 + SmallBitLen(x \div 2)

RECURSIVE TopLimb(_)
TopLimb(N) == IF N = <<>> THEN 0 ELSE IF N[Len(N)] # 0 THEN Len(N)
              ELSE TopLimb(SubSeq(N, 1, Len(N) - 1))

BitLen(N) ==
  LET t == TopLimb(N) IN IF t = 0 THEN 0 ELSE (t - 1) * LimbBits + SmallBitLen(N[t])

\* bit k (0 = least significant) of the natural number N
Bit(N, k) == (Limb(N, (k \div LimbBits) + 1) \div Pow2(k % LimbBits)) % 2

\* N mod 2^k is not zero
LowBitsSet(N, k) ==
  \/ \E i \in 1..(k \div LimbBits) : Limb(N, i) # 0
  \/ Limb(N, (k \div LimbBits) + 1) % Pow2(k % LimbBits) # 0

\* floor(N / 2^s), as `len` limbs
ShiftRight(N, s, len) ==
  LET q == s \div LimbBits
      r == s % LimbBits
  IN  [i \in 1..len |->
         (Limb(N, i + q) \div Pow2(r)) + (Limb(N, i + q + 1) % Pow2(r)) * Pow2(LimbBits - r)]

\* N * 2^s, as `len` limbs (len is large enough to hold it)
ShiftLeft(N, s, len) ==
  LET q == s \div LimbBits
      r == s % LimbBits
  IN  [i \in 1..len |->
         (Limb(N, i - q) % Pow2(LimbBits - r)) * Pow2(r)
           + (Limb(N, i - q - 1) \div Pow2(LimbBits - r))]

RECURSIVE AddCarry(_, _, _, _)
\* limbs i..len of X + Y + carry
AddCarry(X, Y, i, carry) ==
  IF i > Len(X) THEN <<>>
  ELSE <<(X[i] + Limb(Y, i) + carry) % Base>>
         \o AddCarry(X, Y, i + 1, (X[i] + Limb(Y, i) + carry) \div Base)

\* X + Y in Len(X) limbs (Len(X) >= Len(Y), no overflow out of the top limb)
BigAdd(X, Y) == AddCarry(X, Y, 1, 0)

RECURSIVE MulLimb(_, _, _, _)
\* limbs of X * d, one limb longer than X
MulLimb(X, d, i, carry) ==
  IF i > Len(X) THEN <<carry>>
  ELSE <<(X[i] * d + carry) % Base>> \o MulLimb(X, d, i + 1, (X[i] * d + carry) \div Base)

\* column c of the long multiplication of X by Y, before carries: the low
\* halves of the limb products of weight c and the high halves of weight c - 1
RECURSIVE Column(_, _, _, _)
Column(X, Y, c, i) ==
  IF i > Len(X) THEN 0
  ELSE ((Limb(X, i) * Limb(Y, c + 1 - i)) % Base) + ((Limb(X, i) * Limb(Y, c - i)) \div Base)
         + Column(X, Y, c, i + 1)

RECURSIVE Carry(_, _, _, _, _)
\* limbs c..len of the product, given the carry into column c
Carry(X, Y, c, len, carry) ==
  IF c > len THEN <<>>
  ELSE <<(Column(X, Y, c, 1) + carry) % Base>>
         \o Carry(X, Y, c + 1, len, (Column(X, Y, c, 1) + carry) \div Base)

\* X * Y for two numbers of MantLimbs limbs
BigMul(X, Y) == Carry(X, Y, 1, 8, 0)

RECURSIVE BigLess(_, _, _)
\* X < Y, comparing limbs i, i-1, .., 1
BigLess(X, Y, i) ==
  IF i = 0 THEN FALSE
  ELSE IF Limb(X, i) # Limb(Y, i) THEN Limb(X, i) < Limb(Y, i)
  ELSE BigLess(X, Y, i - 1)

MantLimbs == 4

FZero == [m |-> <<0, 0, 0, 0>>, e |-> 0]

IsZero(x) == x.m = <<0, 0, 0, 0>>

\* the binary64 nearest to (N + sticky) * 2^e, ties to even; `sticky` stands
\* for a nonzero amount smaller than one unit of N
\* q rounded to nearest, ties to even: `guard` is the first bit dropped
\* below q, `rest` tells whether anything lies below the guard bit
RoundHalfEven(q, guard, rest) ==
  IF guard /\ (rest \/ q[1] % 2 = 1) THEN BigAdd(q, <<1>>) ELSE q

\* the float r * 2^e, where rounding may have carried r into a 54th bit
Renormalise(r, e) ==
  IF BitLen(r) > MantBits
  THEN [m |-> ShiftRight(r, 1, MantLimbs), e |-> e + 1]
  ELSE [m |-> r, e |-> e]

\* RoundToFloat for a number N of L bits
RoundBits(N, e, sticky, L) ==
  IF L = 0 THEN FZero
  ELSE IF L <= MantBits
  THEN [m |-> ShiftLeft(N, MantBits - L, MantLimbs), e |-> e - (MantBits - L)]
  ELSE Renormalise(RoundHalfEven(ShiftRight(N, L - MantBits, MantLimbs),
                                 Bit(N, L - MantBits - 1) = 1,
                                 sticky \/ LowBitsSet(N, L - MantBits - 1)),
                   e + (L - MantBits))

RoundToFloat(N, e, sticky) == RoundBits(N, e, sticky, BitLen(N))

FracLimbs == 6

RECURSIVE DivDigits(_, _, _)
\* the next k base-2^15 digits of r/q (most significant first), then the remainder
DivDigits(r, q, k) ==
  IF k = 0 THEN <<r>>
  ELSE <<(r * Base) \div q>> \o DivDigits((r * Base) % q, q, k - 1)

Reverse(s) == [i \in 1..Len(s) |-> s[Len(s) + 1 - i]]

\* float(p) / float(q) for small naturals p and q > 0: the correctly rounded quotient
\* d: the FracLimbs digits of the fraction of p/q, then the remainder
Quotient(whole, d) ==
  RoundToFloat(Reverse(<<whole>> \o SubSeq(d, 1, FracLimbs)),
               0 - FracLimbs * LimbBits, d[FracLimbs + 1] # 0)

LongDivision(p, q) == Quotient(p \div q, DivDigits(p % q, q, FracLimbs))

LongMultiplication(x, y) ==
  IF IsZero(x) \/ IsZero(y) THEN FZero
  ELSE RoundToFloat(BigMul(x.m, y.m), x.e + y.e, FALSE)

FloatDiv(p, q) == LongDivision(p, q)

FloatMul(x, y) == LongMultiplication(x, y)

\* x + y with both mantissas aligned on the exponent e <= x.e, y.e
AlignedAdd(x, y, e) ==
  RoundToFloat(BigAdd(ShiftLeft(x.m, x.e - e, MantLimbs + 1 + ((x.e - e) + (y.e - e)) \div LimbBits),
                      ShiftLeft(y.m, y.e - e, MantLimbs + 1 + ((x.e - e) + (y.e - e)) \div LimbBits)),
               e, FALSE)

FloatAdd(x, y) ==
  IF IsZero(x) THEN y
  ELSE IF IsZero(y) THEN x
  ELSE AlignedAdd(x, y, IF x.e < y.e THEN x.e ELSE y.e)

\* x < y for non-negative floats
FloatLess(x, y) ==
  IF IsZero(y) THEN FALSE
  ELSE IF IsZero(x) THEN TRUE
  ELSE IF x.e # y.e THEN x.e < y.e
  ELSE BigLess(x.m, y.m, MantLimbs)

FloatLeq(x, y) == ~FloatLess(y, x)

\* -x for a float x > 0: the same magnitude, marked negative
Minus(x) == [m |-> x.m, e |-> x.e, neg |-> TRUE]

\* x > y for floats of either sign
FloatGreater(x, y) ==
  IF "neg" \in DOMAIN x
  THEN "neg" \in DOMAIN y /\ FloatLess([m |-> x.m, e |-> x.e], [m |-> y.m, e |-> y.e])
  ELSE IF "neg" \in DOMAIN y THEN TRUE
  ELSE FloatLess(y, x)

\* nearest integer to x * scale, ties to even, on the exact value of x
\* (what float.__round__ and the 'f' format do before printing digits)
\* the integer nearest to N / 2^s, ties to even, given its floor q
NearestInteger(N, s, q) ==
  IF s >= 1 /\ Bit(N, s - 1) = 1 /\ (LowBitsSet(N, s - 1) \/ q[1] % 2 = 1)
  THEN q[1] + Base * q[2] + 1
  ELSE q[1] + Base * q[2]

ScaledRound(N, s) == NearestInteger(N, s, ShiftRight(N, s, 2))

DecimalRound(x, scale) ==
  IF IsZero(x) THEN 0 ELSE ScaledRound(MulLimb(x.m, scale, 1, 0), 0 - x.e)

\* float literals of the source
FOne == FloatDiv(1, 1)

Tenths(k) == FloatDiv(k, 10)

F07 == Tenths(7)

F03 == Tenths(3)

F04 == Tenths(4)

F100 == FloatDiv(100, 1)

\* ------------------------------------------------------------------------
\* difflib.SequenceMatcher(None, a, b).ratio()
\* (autojunk only acts on a second sequence of 200 or more characters)
\* Indices are 0-based and half-open as in difflib; a[i] is written a[i + 1].
\* ------------------------------------------------------------------------
\* b2j[x]: the first index of b at or after j, below bhi, that holds x; bhi
\* when there is none
NextIndex(b, x, j, bhi) ==
  IF \E k \in j..(bhi - 1) : b[k + 1] = x
  THEN CHOOSE k \in j..(bhi - 1) : b[k + 1] = x /\ \A l \in j..(k - 1) : b[l + 1] # x
  ELSE bhi

\* newj2len for a[i]: for each j in blo..bhi-1 (kept at position j - blo + 1)
\* the length of the common run that ends at a[i], b[j], which is
\* j2len.get(j - 1, 0) + 1 where b[j] is a[i]; 0 stands for an absent key
RunLengths(a, b, blo, bhi, i, j2len) ==
  [n \in 1..(bhi - blo) |->
     IF b[blo + n] # a[i + 1] THEN 0
     ELSE IF n = 1 THEN 1
     ELSE j2len[n - 1] + 1] \o <<>>

\* the block of length k that ends at a[i], b[j]
Block(i, j, k) == [besti |-> i - k + 1, bestj |-> j - k + 1, bestsize |-> k]

RECURSIVE ScanRow(_, _, _, _, _, _, _)
\* the inner loop of find_longest_match, `for j in b2j.get(a[i], nothing)`
\* from index j on: `if k > bestsize:` on the run that ends at a[i], b[j]
ScanRow(x, b, blo, bhi, i, j, at) ==
  IF j >= bhi THEN at
  ELSE IF at.j2len[j - blo + 1] > at.best.bestsize
  THEN ScanRow(x, b, blo, bhi, i, NextIndex(b, x, j + 1, bhi),
               [at EXCEPT !.best = Block(i, j, at.j2len[j - blo + 1])])
  ELSE ScanRow(x, b, blo, bhi, i, NextIndex(b, x, j + 1, bhi), at)

RECURSIVE LongestScan(_, _, _, _, _, _, _)
\* the outer loop of find_longest_match; at holds its variables on entry to
\* an iteration: i, the position in a, j2len and the best block so far
LongestScan(a, b, alo, ahi, blo, bhi, at) ==
  IF at.i >= ahi THEN at.best
  ELSE LongestScan(a, b, alo, ahi, blo, bhi,
         [ScanRow(a[at.i + 1], b, blo, bhi, at.i, NextIndex(b, a[at.i + 1], blo, bhi),
                  [at EXCEPT !.j2len = RunLengths(a, b, blo, bhi, at.i, at.j2len)])
            EXCEPT !.i = at.i + 1])

find_longest_match(a, b, alo, ahi, blo, bhi) ==
  LongestScan(a, b, alo, ahi, blo, bhi,
              [i |-> alo, j2len |-> [n \in 1..(bhi - blo) |-> 0],
               best |-> [besti |-> alo, bestj |-> blo, bestsize |-> 0]])

RECURSIVE MatchedChars(_, _, _, _, _, _)
RECURSIVE MatchedAround(_, _, _, _, _, _, _)
\* the size of the block x = (i, j, k) and of the blocks get_matching_blocks()
\* finds to its left and to its right within a[alo:ahi], b[blo:bhi]
MatchedAround(a, b, alo, ahi, blo, bhi, x) ==
  IF x.bestsize = 0 THEN 0
  ELSE x.bestsize
         + (IF alo < x.besti /\ blo < x.bestj
            THEN MatchedChars(a, b, alo, x.besti, blo, x.bestj) ELSE 0)
         + (IF x.besti + x.bestsize < ahi /\ x.bestj + x.bestsize < bhi
            THEN MatchedChars(a, b, x.besti + x.bestsize, ahi, x.bestj + x.bestsize, bhi)
            ELSE 0)

\* sum of the sizes of get_matching_blocks() within a[alo:ahi], b[blo:bhi]
MatchedChars(a, b, alo, ahi, blo, bhi) ==
  MatchedAround(a, b, alo, ahi, blo, bhi, find_longest_match(a, b, alo, ahi, blo, bhi))

matches(a, b) == MatchedChars(a, b, 0, Len(a), 0, Len(b))

\* the ratio without the factor 2: M / T
ratio_unscaled(a, b) ==
  IF Len(a) + Len(b) = 0 THEN FOne
  ELSE FloatDiv(matches(a, b), Len(a) + Len(b))

ratio(a, b) ==
  IF Len(a) + Len(b) = 0 THEN FOne
  ELSE FloatDiv(2 * matches(a, b), Len(a) + Len(b))

\* ------------------------------------------------------------------------
\* The catalogue
\* ------------------------------------------------------------------------
\* FAQ entries the catalogues of the model are built from.  Entries 1 and 2
\* differ only in their answer; entry 3 has no keywords.
EntryPool ==
  << [question |-> <<"a", "b">>, answer |-> <<"x">>, keywords |-> << <<"a">> >>],
     [question |-> <<"a", "b">>, answer |-> <<"y">>, keywords |-> << <<"a">> >>],
     [question |-> <<"a", "B", "b", "b">>, answer |-> <<"z">>, keywords |-> << >>],
     [question |-> <<"B", "a">>, answer |-> <<"w">>,
      keywords |-> << <<"a", "a">>, <<"b">>, <<"b", "a">> >>] >>

Catalogues ==
  UNION { [1..n -> {EntryPool[i] : i \in 1..Len(EntryPool)}] : n \in 0..MaxEntries }

\* an entry whose keyword does not occur in its own question
ShortEntry == [question |-> <<"a">>, answer |-> <<"v">>, keywords |-> << <<"b">> >>]

\* the catalogues over these entries whose questions differ pairwise, letter
\* case ignored
ExactCatalogues ==
  { c \in UNION { [1..n -> {EntryPool[i] : i \in 1..Len(EntryPool)} \cup {ShortEntry}] :
                    n \in 1..MaxEntries } :
      \A i, j \in 1..Len(c) : i # j => lower(c[i].question) # lower(c[j].question) }

\* ------------------------------------------------------------------------
\* FAQ_DATA, the drone catalogue of app.py.  Questions and keywords are
\* sequences of characters, as the matchers read them; an answer is only
\* ever copied, so it is kept as one string (characters outside ASCII are
\* written as Python writes them, \\uXXXX).
\* ------------------------------------------------------------------------
FlightTime ==
  [question |-> <<"W", "h", "a", "t", " ", "i", "s", " ", "t", "h", "e", " ", "f", "l", "i",
                 "g", "h", "t", " ", "t", "i", "m", "e", " ", "o", "f", " ", "t", "h", "i",
                 "s", " ", "d", "r", "o", "n", "e", "?">>,
   answer |-> <<"The drone offers up to 28\\u201a\\xc4\\xec32 minutes of continuous flight time per battery, depending on wind and payload.">>,
   keywords |-> << <<"f", "l", "i", "g", "h", "t">>,
                   <<"t", "i", "m", "e">>,
                   <<"b", "a", "t", "t", "e", "r", "y">>,
                   <<"m", "i", "n", "u", "t", "e", "s">>,
                   <<"d", "u", "r", "a", "t", "i", "o", "n">> >>]

MaximumRange ==
  [question |-> <<"W", "h", "a", "t", " ", "i", "s", " ", "t", "h", "e", " ", "m", "a", "x",
                 "i", "m", "u", "m", " ", "r", "a", "n", "g", "e", "?">>,
   answer |-> <<"You can fly the drone up to 6\\u201a\\xc4\\xec8 kilometers with a clear line of sight and minimal interference.">>,
   keywords |-> << <<"m", "a", "x", "i", "m", "u", "m">>,
                   <<"r", "a", "n", "g", "e">>,
                   <<"d", "i", "s", "t", "a", "n", "c", "e">>,
                   <<"k", "i", "l", "o", "m", "e", "t", "e", "r", "s">>,
                   <<"k", "m">> >>]

HasGPS ==
  [question |-> <<"D", "o", "e", "s", " ", "t", "h", "i", "s", " ", "d", "r", "o", "n", "e",
                 " ", "h", "a", "v", "e", " ", "G", "P", "S", "?">>,
   answer |-> <<"Yes, it features built-in GPS + GLONASS for stable hovering, accurate positioning, and automated flight modes.">>,
   keywords |-> << <<"g", "p", "s">>,
                   <<"g", "l", "o", "n", "a", "s", "s">>,
                   <<"p", "o", "s", "i", "t", "i", "o", "n", "i", "n", "g">>,
                   <<"n", "a", "v", "i", "g", "a", "t", "i", "o", "n">> >>]

CameraResolution ==
  [question |-> <<"W", "h", "a", "t", " ", "c", "a", "m", "e", "r", "a", " ", "r", "e", "s",
                 "o", "l", "u", "t", "i", "o", "n", " ", "d", "o", "e", "s", " ", "i", "t",
                 " ", "s", "u", "p", "p", "o", "r", "t", "?">>,
   answer |-> <<"The drone comes with a 4K Ultra HD camera (30 fps) with a 3-axis gimbal for smooth and stable footage.">>,
   keywords |-> << <<"c", "a", "m", "e", "r", "a">>,
                   <<"r", "e", "s", "o", "l", "u", "t", "i", "o", "n">>,
                   <<"4", "k">>,
                   <<"u", "l", "t", "r", "a">>,
                   <<"h", "d">>,
                   <<"g", "i", "m", "b", "a", "l">>,
                   <<"f", "p", "s">> >>]

CameraRemovable ==
  [question |-> <<"I", "s", " ", "t", "h", "e", " ", "c", "a", "m", "e", "r", "a", " ", "r",
                 "e", "m", "o", "v", "a", "b", "l", "e", " ", "o", "r", " ", "u", "p", "g",
                 "r", "a", "d", "e", "a", "b", "l", "e", "?">>,
   answer |-> <<"Yes, the camera is removable, and there are upgrade options that are fully compatible with the drone's gimbal system.">>,
   keywords |-> << <<"c", "a", "m", "e", "r", "a">>,
                   <<"r", "e", "m", "o", "v", "a", "b", "l", "e">>,
                   <<"u", "p", "g", "r", "a", "d", "e", "a", "b", "l", "e">>,
                   <<"u", "p", "g", "r", "a", "d", "e">>,
                   <<"c", "o", "m", "p", "a", "t", "i", "b", "l", "e">> >>]

PayloadCapacity ==
  [question |-> <<"W", "h", "a", "t", " ", "i", "s", " ", "t", "h", "e", " ", "p", "a", "y",
                 "l", "o", "a", "d", " ", "c", "a", "p", "a", "c", "i", "t", "y", "?">>,
   answer |-> <<"The drone can safely carry up to 500\\u201a\\xc4\\xec700 grams without affecting stability.">>,
   keywords |-> << <<"p", "a", "y", "l", "o", "a", "d">>,
                   <<"c", "a", "p", "a", "c", "i", "t", "y">>,
                   <<"w", "e", "i", "g", "h", "t">>,
                   <<"c", "a", "r", "r", "y">>,
                   <<"g", "r", "a", "m", "s">> >>]

MaximumSpeed ==
  [question |-> <<"W", "h", "a", "t", " ", "i", "s", " ", "t", "h", "e", " ", "m", "a", "x",
                 "i", "m", "u", "m", " ", "s", "p", "e", "e", "d", "?">>,
   answer |-> <<"The drone reaches speeds of up to 60 km/h (in Sport Mode).">>,
   keywords |-> << <<"m", "a", "x", "i", "m", "u", "m">>,
                   <<"s", "p", "e", "e", "d">>,
                   <<"k", "m", "/", "h">>,
                   <<"s", "p", "o", "r", "t">>,
                   <<"m", "o", "d", "e">> >>]

Waterproof ==
  [question |-> <<"I", "s", " ", "i", "t", " ", "w", "a", "t", "e", "r", "p", "r", "o", "o",
                 "f", " ", "o", "r", " ", "w", "e", "a", "t", "h", "e", "r", "-", "r", "e",
                 "s", "i", "s", "t", "a", "n", "t", "?">>,
   answer |-> <<"The drone is weather-resistant (IP43), meaning it can handle light rain and dust\\u201a\\xc4\\xeebut it is not fully waterproof.">>,
   keywords |-> << <<"w", "a", "t", "e", "r", "p", "r", "o", "o", "f">>,
                   <<"w", "e", "a", "t", "h", "e", "r">>,
                   <<"r", "e", "s", "i", "s", "t", "a", "n", "t">>,
                   <<"r", "a", "i", "n">>,
                   <<"d", "u", "s", "t">>,
                   <<"i", "p", "4", "3">> >>]

FAQ_DATA == <<FlightTime,
             MaximumRange,
             HasGPS,
             CameraResolution,
             CameraRemovable,
             PayloadCapacity,
             MaximumSpeed,
             Waterproof>>

\* the questions put to the drone catalogue
BatteryDuration ==
  <<"b", "a", "t", "t", "e", "r", "y", " ", "d", "u", "r", "a", "t", "i", "o", "n">>

WeatherToday ==
  <<"W", "h", "a", "t", "'", "s", " ", "t", "h", "e", " ", "w", "e", "a", "t", "h", "e", "r",
    " ", "l", "i", "k", "e", " ", "t", "o", "d", "a", "y", "?">>

GPS == <<"G", "P", "S">>

DroneQuestions == { <<>>, BatteryDuration, FlightTime.question, WeatherToday, GPS }

Texts == UNION { [1..n -> Alphabet] : n \in 0..MaxLen }

\* what input() can raise instead of returning a line
KeyboardInterrupt == <<"KeyboardInterrupt">>

EOFError == <<"EOFError">>

ExitWords == { <<"e", "x", "i", "t">>, <<"q", "u", "i", "t">>, <<"b", "y", "e">> }

Help == <<"h", "e", "l", "p">>

\* lines typed at a console prompt: any short text, or a command
Commands == ExitWords \cup { <<"B", "y", "e", " ">>, <<" ", "e", "x", "i", "t">>, Help }

Lines == Texts \cup Commands

\* the texts a score is computed for: the lines, and the lines stripped
Inputs == Lines \cup { strip(line) : line \in Lines }

\* Python's None, where a text or an entry is expected
None == <<"None">>

\* best_match = None, where the position of an entry is expected
NoMatch == 0

\* ------------------------------------------------------------------------
\* Matchers (app.py; chatbot_console.py holds the same classes)
\* ------------------------------------------------------------------------
\* the validation without the strip() test
validate_input_unstripped(user_input) == user_input # None /\ user_input # <<>>

validate_input(user_input) == user_input # None /\ user_input # <<>> /\ strip(user_input) # <<>>

SimilarityMatcher_calculate_score(user_input, faq_item) ==
  ratio(lower(user_input), lower(faq_item.question))

RECURSIVE CountMatches(_, _, _)
\* sum(1 for keyword in keywords if keyword in user_lower), from keyword i on
CountMatches(keywords, user_lower, i) ==
  IF i > Len(keywords) THEN 0
  ELSE (IF Contains(keywords[i], user_lower) THEN 1 ELSE 0)
         + CountMatches(keywords, user_lower, i + 1)

\* the keywords looked up in the query as typed, not lowercased
KeywordMatcher_calculate_score_cased(user_input, faq_item) ==
  IF faq_item.keywords = <<>> THEN FZero
  ELSE FloatDiv(CountMatches(faq_item.keywords, user_input, 1), Len(faq_item.keywords))

\* sub occurs in s as a whole whitespace-delimited token
TokenContains(sub, s) ==
  \E i \in 0..(Len(s) - Len(sub)) :
    /\ SubSeq(s, i + 1, i + Len(sub)) = sub
    /\ (i = 0 \/ s[i] \in Whitespace)
    /\ (i + Len(sub) = Len(s) \/ s[i + Len(sub) + 1] \in Whitespace)

\* the keywords matched against the tokens of the query, not its substrings
KeywordMatcher_calculate_score_tokens(user_input, faq_item) ==
  IF faq_item.keywords = <<>> THEN FZero
  ELSE FloatDiv(Cardinality({ k \in 1..Len(faq_item.keywords) :
                               TokenContains(faq_item.keywords[k], lower(user_input)) }),
                Len(faq_item.keywords))

\* the score 1.0 as soon as one keyword occurs in the query
KeywordMatcher_calculate_score_any(user_input, faq_item) ==
  IF faq_item.keywords = <<>> THEN FZero
  ELSE IF CountMatches(faq_item.keywords, lower(user_input), 1) > 0 THEN FOne
  ELSE FZero

\* matches / len(keywords), the matches counted in user_input.lower()
KeywordMatcher_calculate_score(user_input, faq_item) ==
  IF faq_item.keywords = <<>> THEN FZero
  ELSE FloatDiv(CountMatches(faq_item.keywords, lower(user_input), 1),
                Len(faq_item.keywords))

\* default weights that add up to more than 1
HeavyWeights == <<7, 4>>

DefaultWeights == <<7, 3>>

\* HybridMatcher.__init__: weights in tenths, the defaults when none are supplied
HybridMatcher(weights) ==
  LET w == IF weights = None THEN DefaultWeights ELSE weights
  IN  [kind |-> "hybrid", similarity_weight |-> Tenths(w[1]), keyword_weight |-> Tenths(w[2])]

\* the two weights applied to the wrong scores
HybridMatcher_calculate_score_swapped(self, user_input, faq_item) ==
  FloatAdd(FloatMul(SimilarityMatcher_calculate_score(user_input, faq_item),
                    self.keyword_weight),
           FloatMul(KeywordMatcher_calculate_score(user_input, faq_item),
                    self.similarity_weight))

\* (similarity_score * self.similarity_weight) + (keyword_score * self.keyword_weight)
HybridMatcher_calculate_score(self, user_input, faq_item) ==
  FloatAdd(FloatMul(SimilarityMatcher_calculate_score(user_input, faq_item),
                    self.similarity_weight),
           FloatMul(KeywordMatcher_calculate_score(user_input, faq_item),
                    self.keyword_weight))

\* the weights a HybridMatcher is built with, in tenths; None: no argument
SuppliedWeights == {None, <<4, 6>>, <<7, 3>>}

\* HybridMatcher.calculate_score for every matcher, text and entry of the
\* model, each computed once
HybridScores ==
  [k \in (Inputs \X {EntryPool[i] : i \in 1..Len(EntryPool)}
            \X {HybridMatcher(w) : w \in SuppliedWeights})
          \cup (DroneQuestions \X {FAQ_DATA[i] : i \in 1..Len(FAQ_DATA)}
                  \X {HybridMatcher(None)})
          \cup (Inputs \X {ShortEntry} \X {HybridMatcher(None)}) |->
     HybridMatcher_calculate_score(k[3], k[1], k[2])] @@ <<>>

\* self.matcher.calculate_score(user_input, faq_item), the call of the loop
\* of find_best_match
matcher_calculate_score(self, user_input, faq_item) ==
  IF self.kind = "injected" THEN self.scores[faq_item]
  ELSE HybridScores[<<user_input, faq_item, self>>]

\* ------------------------------------------------------------------------
\* FAQDatabase
\* ------------------------------------------------------------------------
HELPLINE_MESSAGE ==
  <<"I'm not trained to answer this question yet. Please visit https://www.comsats.edu.pk/ for more details.">>

\* a threshold of 0.3
LOW_THRESHOLD == Tenths(3)

CONFIDENCE_THRESHOLD == F04

\* the comparison turned round: a lower score replaces the best
Worse(score, best_score) == FloatLess(score, best_score)

\* the comparison with >=: an equal score replaces the best
BetterOrEqual(score, best_score) == FloatLeq(best_score, score)

\* the comparison of the loop body: does faq_item i replace the current best
Better(score, best_score) == FloatGreater(score, best_score)

\* the body of the for loop of find_best_match on entry i, which scored
\* `score`; best holds best_match, the position of the entry in faq_data
\* (NoMatch for None), and best_score
BestMatchStep(best, i, score) ==
  IF Better(score, best.best_score) THEN [best_match |-> i, best_score |-> score] ELSE best

RECURSIVE BestMatchLoop(_, _, _, _, _)
\* the for loop of find_best_match from entry i on
BestMatchLoop(db, self_matcher, user_input, i, best) ==
  IF i > Len(db) THEN best
  ELSE BestMatchLoop(db, self_matcher, user_input, i + 1,
                     BestMatchStep(best, i,
                                   matcher_calculate_score(self_matcher, user_input, db[i])))

\* the search with best_score starting at 1.0
find_best_match_from_one(db, self_matcher, user_input) ==
  BestMatchLoop(db, self_matcher, user_input, 1, [best_match |-> NoMatch, best_score |-> FOne])

find_best_match(db, self_matcher, user_input) ==
  BestMatchLoop(db, self_matcher, user_input, 1, [best_match |-> NoMatch, best_score |-> FZero])

\* the test with >: a score equal to the threshold is rejected
AcceptsAbove(match, confidence) ==
  match # NoMatch /\ FloatLess(CONFIDENCE_THRESHOLD, confidence)

\* `match and confidence >= self.CONFIDENCE_THRESHOLD`
Accepts(match, confidence) == match # NoMatch /\ FloatLeq(CONFIDENCE_THRESHOLD, confidence)

\* the fallback reporting confidence 0.0 whatever the best score was
build_response_zero_fallback(db, match, confidence) ==
  IF Accepts(match, confidence)
  THEN [answer |-> db[match].answer, confidence |-> confidence,
        question |-> db[match].question]
  ELSE [answer |-> HELPLINE_MESSAGE, confidence |-> FZero, question |-> None]

\* the answer taken from the last entry of the catalogue instead of the match
build_response_last_answer(db, match, confidence) ==
  IF Accepts(match, confidence)
  THEN [answer |-> db[Len(db)].answer, confidence |-> confidence,
        question |-> db[match].question]
  ELSE [answer |-> HELPLINE_MESSAGE, confidence |-> confidence, question |-> None]

\* the if statement of get_response, on the pair find_best_match returned
build_response(db, match, confidence) ==
  IF Accepts(match, confidence)
  THEN [answer |-> db[match].answer, confidence |-> confidence,
        question |-> db[match].question]
  ELSE [answer |-> HELPLINE_MESSAGE, confidence |-> confidence, question |-> None]

\* `match, confidence = self.find_best_match(user_input)`
unpack_response(db, best) == build_response(db, best.best_match, best.best_score)

get_response(db, self_matcher, user_input) ==
  unpack_response(db, find_best_match(db, self_matcher, user_input))

get_all_questions(db) == [i \in 1..Len(db) |-> db[i].question]

\* ------------------------------------------------------------------------
\* Response handlers and ChatbotAPI
\* ------------------------------------------------------------------------
\* round(x, 2): the float nearest to x rounded to two decimals
round2(x) == FloatDiv(DecimalRound(x, 100), 100)

\* f"{confidence * 100:.1f}%", as the number of tenths of a percent printed
format_confidence(confidence) == DecimalRound(FloatMul(confidence, F100), 10)

\* the handler reporting a response without a matched question as an error
JSONResponseHandler_format_response_strict(response_data) ==
  [response |-> response_data.answer,
   confidence |-> round2(response_data.confidence),
   matched_question |-> response_data.question,
   status |-> IF response_data.question = None THEN "error" ELSE "success"]

JSONResponseHandler_format_response(response_data) ==
  [response |-> response_data.answer,
   confidence |-> round2(response_data.confidence),
   matched_question |-> response_data.question,
   status |-> "success"]

ConsoleResponseHandler_format_response(response_data) ==
  [response |-> response_data.answer,
   confidence |-> response_data.confidence,
   matched_question |-> response_data.question,
   formatted |-> <<"Bot: ", response_data.answer, "\n(Confidence: ",
                   format_confidence(response_data.confidence), "%)">>]

ErrorResponseHandler_format_response(error) ==
  [response |-> error, status |-> "error"]

format_response(handler, response_data) ==
  IF handler = "json" THEN JSONResponseHandler_format_response(response_data)
  ELSE ConsoleResponseHandler_format_response(response_data)

PleaseProvide == <<"Please provide a question.">>

\* the query handed to get_response as typed, without .strip()
process_query_unstripped(db, self_matcher, handler, user_input) ==
  IF ~validate_input(user_input)
  THEN ErrorResponseHandler_format_response(PleaseProvide)
  ELSE format_response(handler, get_response(db, self_matcher, user_input))

process_query(db, self_matcher, handler, user_input) ==
  IF ~validate_input(user_input)
  THEN ErrorResponseHandler_format_response(PleaseProvide)
  ELSE format_response(handler, get_response(db, self_matcher, strip(user_input)))

\* the functions process_query calls, in call order
process_query_calls(user_input) ==
  IF ~validate_input(user_input)
  THEN <<"validate_input", "ErrorResponseHandler.format_response">>
  ELSE <<"validate_input", "get_response", "find_best_match", "format_response">>

\* ------------------------------------------------------------------------
\* run_console_mode (app.py; run_console.py and chatbot_console.py hold the
\* same loop)
\* ------------------------------------------------------------------------
Goodbye == <<"Thank you for visiting. Goodbye!">>

\* the loop without its `except Exception` clause: a failed input() ends it
console_step_uncaught(db, self_matcher, line) ==
  IF line \in {KeyboardInterrupt, EOFError}
  THEN [printed |-> <<"Bot: ", Goodbye>>, continues |-> FALSE]
  ELSE IF lower(strip(line)) \in ExitWords
  THEN [printed |-> <<"Bot: ", Goodbye>>, continues |-> FALSE]
  ELSE IF lower(strip(line)) = Help
  THEN [printed |-> <<"Available questions:", get_all_questions(db)>>, continues |-> TRUE]
  ELSE IF strip(line) = <<>>
  THEN [printed |-> <<>>, continues |-> TRUE]
  ELSE [printed |-> process_query(db, self_matcher, "console", strip(line)).formatted,
        continues |-> TRUE]

\* one pass of the while loop on what input() delivers: what is printed and
\* whether the loop goes on
console_step(db, self_matcher, line) ==
  IF line = KeyboardInterrupt THEN [printed |-> <<"Bot: ", Goodbye>>, continues |-> FALSE]
  ELSE IF line = EOFError THEN [printed |-> <<"Error: ">>, continues |-> TRUE]
  ELSE LET user_input == strip(line)
       IN  IF lower(user_input) \in ExitWords
           THEN [printed |-> <<"Bot: ", Goodbye>>, continues |-> FALSE]
           ELSE IF lower(user_input) = Help
           THEN [printed |-> <<"Available questions:", get_all_questions(db)>>,
                 continues |-> TRUE]
           ELSE IF user_input = <<>>
           THEN [printed |-> <<>>, continues |-> TRUE]
           ELSE [printed |-> process_query(db, self_matcher, "console", user_input).formatted,
                 continues |-> TRUE]

\* the functions console_step calls, in call order
console_step_calls(line) ==
  IF line \in {KeyboardInterrupt, EOFError} THEN <<"input">>
  ELSE LET user_input == strip(line)
       IN  IF lower(user_input) \in ExitWords THEN <<"input">>
           ELSE IF lower(user_input) = Help THEN <<"input", "get_all_questions">>
           ELSE IF user_input = <<>> THEN <<"input">>
           ELSE <<"input", "process_query">> \o process_query_calls(user_input)

\* ------------------------------------------------------------------------
\* The procedural copies: iot_chatbot.py and netlify/functions/chat.py
\* ------------------------------------------------------------------------
similarity(a, b) == ratio(lower(a), lower(b))

\* the body of the for loop of the module-level find_best_match up to
\* combined_score
\* keyword_count / len(faq['keywords']) if faq['keywords'] else 0
keyword_score(user_input, faq) ==
  IF faq.keywords # <<>>
  THEN FloatDiv(CountMatches(faq.keywords, lower(user_input), 1), Len(faq.keywords))
  ELSE FZero

\* (question_score * 0.7) + (keyword_score * 0.3)
combined_score(user_input, faq) ==
  FloatAdd(FloatMul(similarity(user_input, faq.question), F07),
           FloatMul(keyword_score(user_input, faq), F03))

\* combined_score for every text and entry of the model, each computed once
CombinedScores ==
  [k \in Inputs \X {EntryPool[i] : i \in 1..Len(EntryPool)} |->
     combined_score(k[1], k[2])] @@ <<>>

\* the comparison with >=: a later entry with an equal score replaces the best
IotBestMatchStep_last(best, i, score) ==
  IF FloatLeq(best.best_score, score) THEN [best_match |-> i, best_score |-> score] ELSE best

\* `if combined_score > best_score:` on entry i
IotBestMatchStep(best, i, score) ==
  IF FloatLess(best.best_score, score) THEN [best_match |-> i, best_score |-> score] ELSE best

RECURSIVE IotBestMatchLoop(_, _, _, _)
\* the for loop of the module-level find_best_match from entry i on
IotBestMatchLoop(faq_database, user_input, i, best) ==
  IF i > Len(faq_database) THEN best
  ELSE IotBestMatchLoop(faq_database, user_input, i + 1,
                        IotBestMatchStep(best, i, CombinedScores[<<user_input, faq_database[i]>>]))

iot_find_best_match(faq_database, user_input) ==
  IotBestMatchLoop(faq_database, user_input, 1, [best_match |-> NoMatch, best_score |-> FZero])

IOT_HELPLINE_MESSAGE ==
  <<"I'm not trained to answer this question yet.\nPlease visit https://www.comsats.edu.pk/ for more details.">>

\* one pass of the while loop of iot_chatbot.main on the line read by input()
\* `if match and score >= 0.4:` of main, on the pair find_best_match returned
iot_reply(faq_database, best) ==
  IF best.best_match # NoMatch /\ FloatLeq(F04, best.best_score)
  THEN [printed |-> <<"Bot:", faq_database[best.best_match].answer>>, continues |-> TRUE]
  ELSE [printed |-> <<"Bot:", IOT_HELPLINE_MESSAGE>>, continues |-> TRUE]

iot_main_step(faq_database, line) ==
  LET user_input == strip(line)
  IN  IF lower(user_input) \in ExitWords
      THEN [printed |-> <<"Bot:", Goodbye>>, continues |-> FALSE]
      ELSE iot_reply(faq_database, iot_find_best_match(faq_database, user_input))

\* a key that the event mapping does not have
Absent == "<absent>"

PleaseAsk == <<"Please ask a question.">>

\* the mapping handler reads user_input from: the decoded body when the body
\* is truthy, else the query string parameters ({} when that key is absent)
handler_params(event) ==
  IF event.body.kind # "empty" THEN event.body
  ELSE IF event.queryStringParameters.kind = Absent
  THEN [kind |-> "object", user_input |-> None]
  ELSE event.queryStringParameters

\* an exception is raised inside the try block: json.loads on a malformed
\* body, .get on a decoded body that is no object, .get on null parameters
handler_raises(event) ==
  \/ event.body.kind \in {"malformed", "nonobject"}
  \/ event.body.kind = "empty" /\ event.queryStringParameters.kind = "null"

\* handler(event, context).  event.httpMethod is a method name or Absent;
\* event.body has kind "empty" (absent, null or ""), "malformed", "nonobject"
\* or "object"; event.queryStringParameters has kind Absent, "null" or
\* "object"; an object holds user_input, None when it has no such key.
\* `if match and score >= 0.4:` of handler, on the pair find_best_match returned
handler_reply(faq_database, best) ==
  IF best.best_match # NoMatch /\ FloatLeq(F04, best.best_score)
  THEN [statusCode |-> 200, body |-> [response |-> faq_database[best.best_match].answer]]
  ELSE [statusCode |-> 200, body |-> [response |-> HELPLINE_MESSAGE]]

handler(faq_database, event) ==
  IF event.httpMethod = Absent THEN [raised |-> "KeyError"]
  ELSE IF event.httpMethod = "OPTIONS" THEN [statusCode |-> 200, body |-> <<>>]
  ELSE IF handler_raises(event)
  THEN [statusCode |-> 500, body |-> [response |-> <<"Error: ">>]]
  ELSE LET given      == handler_params(event).user_input
           user_input == strip(IF given = None THEN <<>> ELSE given)
       IN  IF user_input = <<>>
           THEN [statusCode |-> 200, body |-> [response |-> PleaseAsk]]
           ELSE handler_reply(faq_database, iot_find_best_match(faq_database, user_input))

\* the functions handler calls, in call order
handler_calls(event) ==
  IF event.httpMethod = Absent \/ event.httpMethod = "OPTIONS" THEN <<>>
  ELSE LET parsed == IF event.body.kind # "empty" THEN <<"json.loads">> ELSE <<>>
       IN  IF handler_raises(event) THEN parsed
           ELSE LET given == handler_params(event).user_input
                IN  IF given = None \/ strip(given) = <<>> THEN parsed
                    ELSE parsed \o <<"find_best_match">>

\* ------------------------------------------------------------------------
\* Inputs of the model
\* ------------------------------------------------------------------------
Objects == { [kind |-> "object", user_input |-> t] : t \in Texts \cup {None} }

Events ==
  { [httpMethod |-> m, body |-> [kind |-> "empty", user_input |-> None],
     queryStringParameters |-> [kind |-> Absent, user_input |-> None]] :
       m \in {Absent, "OPTIONS", "GET"} }
  \cup
  { [httpMethod |-> "POST", body |-> b,
     queryStringParameters |-> [kind |-> Absent, user_input |-> None]] :
       b \in Objects \cup { [kind |-> k, user_input |-> None] : k \in {"malformed", "nonobject"} } }
  \cup
  { [httpMethod |-> "GET", body |-> [kind |-> "empty", user_input |-> None],
     queryStringParameters |-> p] :
       p \in Objects \cup { [kind |-> "null", user_input |-> None] } }

\* ------------------------------------------------------------------------
\* State
\* ------------------------------------------------------------------------
\* program   which program is running: "matchers" (the matcher classes
\*           called on one FAQ item, as run_tests does), "library" (a
\*           FAQDatabase and the chatbots over it, called directly),
\*           "app_console" (run_console_mode), "iot_chatbot" (main and its
\*           find_best_match), "netlify" (handler)
\* faq_data  the catalogue (FAQDatabase.faq_data / faq_database); the one
\*           FAQ item of "matchers"
\* supplied  the weights the caller passed to HybridMatcher, None for none
\* matcher   FAQDatabase.matcher
\* request   the input that is being served: the argument of the call, what
\*           input() delivers at the prompt, the event of the invocation
\* running   the console loop has not ended
\* op        the operation that has run on the request, Idle before it
\* result    what it returned or printed
\* calls     the functions it called, in call order
\* served    how many inputs the program has served before the one in
\*           `request` (history of the run, not a field of the program)
\* callers   the requests the Flask application is serving, one per client:
\*           pc, where the client's call of chat() stands, and the locals of
\*           that call (question; faq_item as the position i in faq_data,
\*           best_match, best_score of find_best_match; response)
VARIABLES program, faq_data, supplied, matcher, request, running, op, result, calls, served,
          callers

vars == <<program, faq_data, supplied, matcher, request, running, op, result, calls, served,
          callers>>

Programs == {"matchers", "library", "app_console", "iot_chatbot", "netlify"}

\* the weights the callers of the model pass to HybridMatcher
CallerWeights == {None, <<4, 6>>}

\* ChatbotFactory.create_console_chatbot / create_api_chatbot
FactoryWeights == <<7, 3>>

\* the response handlers of the two chatbots built over the database
Handlers == {"json", "console"}

\* the matcher classes run_tests calls calculate_score on
MatcherKinds == {"similarity", "keyword", "hybrid"}

\* the inputs a program can be given
Requests(p) ==
  IF p = "matchers" THEN Texts
  ELSE IF p = "library" THEN Texts \cup {None}
  ELSE IF p = "app_console" THEN Lines \cup {KeyboardInterrupt, EOFError}
  ELSE IF p = "iot_chatbot" THEN Lines
  ELSE Events

\* inputs that arrive after the first one
FollowUps(p) ==
  IF p \in {"matchers", "library"} THEN { <<>>, <<"a", "B">>, <<" ", "B", "a">> }
  ELSE IF p = "app_console" THEN { <<>>, <<"a", "B">>, Help, EOFError }
  ELSE IF p = "iot_chatbot" THEN { <<>>, <<"a", "B">>, <<"B", "y", "e", " ">> }
  ELSE { e \in Events : e.body.kind # "object" /\ e.queryStringParameters.kind # "object" }

Idle == [name |-> "idle", input |-> <<>>, handler |-> ""]

Init ==
  /\ program \in Programs
  /\ faq_data \in IF program = "matchers" THEN {c \in Catalogues : Len(c) = 1}
                  ELSE Catalogues
  /\ supplied \in IF program \in {"matchers", "library"} THEN CallerWeights
                 ELSE {FactoryWeights}
  /\ matcher = HybridMatcher(supplied)
  /\ request \in Requests(program)
  /\ running = TRUE
  /\ op = Idle
  /\ result = <<>>
  /\ calls = <<>>
  /\ served = 0
  /\ callers = <<>>

Config == <<program, faq_data, supplied, matcher>>

\* the operation has returned and the next input arrives
Receive ==
  /\ running
  /\ op # Idle
  /\ served < MaxServed
  /\ served' = served + 1
  /\ callers' = callers
  /\ request' \in FollowUps(program)
  /\ op' = Idle
  /\ result' = <<>>
  /\ calls' = <<>>
  /\ UNCHANGED <<Config, running>>

\* matcher.calculate_score(user_input, faq_item) on a matcher of each class
CalculateScore ==
  \E kind \in MatcherKinds :
    /\ program = "matchers"
    /\ op = Idle
    /\ op' = [name |-> "calculate_score", input |-> request, handler |-> kind]
    /\ result' =
         [score |-> IF kind = "similarity"
                    THEN SimilarityMatcher_calculate_score(request, faq_data[1])
                    ELSE IF kind = "keyword"
                    THEN KeywordMatcher_calculate_score(request, faq_data[1])
                    ELSE HybridMatcher_calculate_score(matcher, request, faq_data[1])]
    /\ calls' = <<"calculate_score">>
    /\ UNCHANGED <<Config, request, running, served, callers>>

\* find_best_match on a database that turns its list round after searching
FindBestMatch_reordering ==
  /\ program = "library"
  /\ op = Idle
  /\ request # None
  /\ op' = [name |-> "find_best_match", input |-> request, handler |-> ""]
  /\ result' = find_best_match(faq_data, matcher, request)
  /\ calls' = <<"find_best_match">>
  /\ faq_data' = Reverse(faq_data)
  /\ UNCHANGED <<program, supplied, matcher, request, running, served, callers>>

\* db.find_best_match(user_input)
FindBestMatch ==
  /\ program = "library"
  /\ op = Idle
  /\ request # None
  /\ op' = [name |-> "find_best_match", input |-> request, handler |-> ""]
  /\ result' = find_best_match(faq_data, matcher, request)
  /\ calls' = <<"find_best_match">>
  /\ UNCHANGED <<Config, request, running, served, callers>>

\* db.get_response(user_input)
GetResponse ==
  /\ program = "library"
  /\ op = Idle
  /\ request # None
  /\ op' = [name |-> "get_response", input |-> request, handler |-> ""]
  /\ result' = get_response(faq_data, matcher, request)
  /\ calls' = <<"get_response", "find_best_match">>
  /\ UNCHANGED <<Config, request, running, served, callers>>

\* process_query on a chatbot that tunes its matcher after every query
ProcessQuery_tuning ==
  \E response_handler \in Handlers :
    /\ program = "library"
    /\ op = Idle
    /\ op' = [name |-> "process_query", input |-> request,
              handler |-> response_handler]
    /\ result' = process_query(faq_data, matcher, response_handler, request)
    /\ calls' = process_query_calls(request)
    /\ matcher' = HybridMatcher(<<4, 6>>)
    /\ UNCHANGED <<program, faq_data, supplied, request, running, served, callers>>

\* chatbot.process_query(user_input), on the chatbot with the given handler
ProcessQuery ==
  \E response_handler \in Handlers :
    /\ program = "library"
    /\ op = Idle
    /\ op' = [name |-> "process_query", input |-> request,
              handler |-> response_handler]
    /\ result' = process_query(faq_data, matcher, response_handler, request)
    /\ calls' = process_query_calls(request)
    /\ UNCHANGED <<Config, request, running, served, callers>>

\* db.get_all_questions()
GetAllQuestions ==
  /\ program = "library"
  /\ op = Idle
  /\ op' = [name |-> "get_all_questions", input |-> <<>>, handler |-> ""]
  /\ result' = [questions |-> get_all_questions(faq_data)]
  /\ calls' = <<"get_all_questions">>
  /\ UNCHANGED <<Config, request, running, served, callers>>

\* one pass of the loop of run_console_mode
ConsoleStep ==
  /\ program = "app_console"
  /\ op = Idle
  /\ running
  /\ result' = [printed |-> console_step(faq_data, matcher, request).printed]
  /\ running' = console_step(faq_data, matcher, request).continues
  /\ calls' = console_step_calls(request)
  /\ op' = [name |-> "console_step", input |-> request, handler |-> ""]
  /\ UNCHANGED <<Config, request, served, callers>>

\* find_best_match(user_input) of iot_chatbot.py
IotFindBestMatch ==
  /\ program = "iot_chatbot"
  /\ op = Idle
  /\ running
  /\ op' = [name |-> "iot_find_best_match", input |-> request, handler |-> ""]
  /\ result' = iot_find_best_match(faq_data, request)
  /\ calls' = <<"find_best_match">>
  /\ UNCHANGED <<Config, request, running, served, callers>>

\* one pass of the loop of iot_chatbot.main
IotMain ==
  /\ program = "iot_chatbot"
  /\ op = Idle
  /\ running
  /\ result' = [printed |-> iot_main_step(faq_data, request).printed]
  /\ running' = iot_main_step(faq_data, request).continues
  /\ calls' = IF lower(strip(request)) \in ExitWords THEN <<"input">>
              ELSE <<"input", "find_best_match">>
  /\ op' = [name |-> "iot_main", input |-> request, handler |-> ""]
  /\ UNCHANGED <<Config, request, served, callers>>

\* one invocation of the serverless function
Handler ==
  /\ program = "netlify"
  /\ op = Idle
  /\ op' = [name |-> "handler", input |-> request, handler |-> ""]
  /\ result' = handler(faq_data, request)
  /\ calls' = handler_calls(request)
  /\ UNCHANGED <<Config, request, running, served, callers>>

Next ==
  \/ Receive
  \/ CalculateScore
  \/ FindBestMatch
  \/ GetResponse
  \/ ProcessQuery
  \/ GetAllQuestions
  \/ ConsoleStep
  \/ IotFindBestMatch
  \/ IotMain
  \/ Handler

Spec == Init /\ [][Next]_vars

\* ------------------------------------------------------------------------
\* create_flask_app: one chatbot, built once, serving the requests of
\* several clients; a threaded server runs their calls of chat() at the same
\* time, and a thread can be preempted between any two bytecodes.  The only
\* objects the calls share are chatbot.faq_database.faq_data and
\* chatbot.faq_database.matcher, so a step of the model is the code between
\* two reads of them: one iteration of the loop of find_best_match.
\* ------------------------------------------------------------------------
Callers == 1..MaxCallers

\* the questions the clients send
Questions == { <<>>, <<"a", "B">>, <<" ", "B", "a">>, <<"B">> }

\* the questions sent to a chatbot built over db
QuestionsAsked(db) == IF db = FAQ_DATA THEN DroneQuestions ELSE Questions

NoCall ==
  [pc |-> "idle", question |-> <<>>, i |-> 0, best_match |-> NoMatch,
   best_score |-> FZero, response |-> <<>>]

FlaskInit ==
  /\ program = "flask"
  /\ faq_data \in Catalogues
  /\ supplied = FactoryWeights
  /\ matcher = HybridMatcher(supplied)
  /\ request = <<>>
  /\ running = TRUE
  /\ op = Idle
  /\ result = <<>>
  /\ calls = <<>>
  /\ served = 0
  /\ callers = [c \in Callers |-> NoCall]

Engine == <<program, faq_data, supplied, matcher, request, running, op, result, calls, served>>

\* chat() up to the first statement of find_best_match: the question is read
\* from the request, process_query validates and strips it, and the search
\* starts with best_match = None and best_score = 0.0
ChatBegin(c) ==
  \E question \in QuestionsAsked(faq_data) :
    /\ callers[c].pc = "idle"
    /\ callers' = [callers EXCEPT ![c] =
         IF ~validate_input(question)
         THEN [NoCall EXCEPT !.pc = "done", !.question = question,
                 !.response = [body |-> ErrorResponseHandler_format_response(PleaseProvide),
                               code |-> 200]]
         ELSE [NoCall EXCEPT !.pc = "search", !.question = strip(question), !.i = 1]]
    /\ UNCHANGED Engine

\* the loop iteration with best_match and best_score kept on the database
\* object (self.best_match, self.best_score) instead of in locals: what one
\* call stores is what every call in the loop reads next
ChatSearch_shared(c) ==
  /\ callers[c].pc = "search"
  /\ callers[c].i <= Len(faq_data)
  /\ callers' =
       [d \in Callers |->
          IF d = c \/ callers[d].pc = "search"
          THEN [callers[d] EXCEPT
                  !.i = IF d = c THEN @ + 1 ELSE @,
                  !.best_match = BestMatchStep(callers[c], callers[c].i,
                                   matcher_calculate_score(matcher, callers[c].question,
                                                           faq_data[callers[c].i])).best_match,
                  !.best_score = BestMatchStep(callers[c], callers[c].i,
                                   matcher_calculate_score(matcher, callers[c].question,
                                                           faq_data[callers[c].i])).best_score]
          ELSE callers[d]]
  /\ UNCHANGED Engine

\* one iteration of the for loop of find_best_match in the client's call
ChatSearch(c) ==
  /\ callers[c].pc = "search"
  /\ callers[c].i <= Len(faq_data)
  /\ callers' = [callers EXCEPT ![c] =
       [callers[c] EXCEPT
          !.i = @ + 1,
          !.best_match = BestMatchStep(callers[c], callers[c].i,
                           matcher_calculate_score(matcher, callers[c].question,
                                                   faq_data[callers[c].i])).best_match,
          !.best_score = BestMatchStep(callers[c], callers[c].i,
                           matcher_calculate_score(matcher, callers[c].question,
                                                   faq_data[callers[c].i])).best_score]]
  /\ UNCHANGED Engine

\* the loop is over: find_best_match returns, get_response builds the
\* response, the handler formats it and chat() returns it with status 200
ChatReturn(c) ==
  /\ callers[c].pc = "search"
  /\ callers[c].i > Len(faq_data)
  /\ callers' = [callers EXCEPT ![c] =
       [callers[c] EXCEPT
          !.pc = "done",
          !.response = [body |-> JSONResponseHandler_format_response(
                                   build_response(faq_data, callers[c].best_match,
                                                  callers[c].best_score)),
                        code |-> 200]]]
  /\ UNCHANGED Engine

\* the client has its response and can send the next request
ChatNext(c) ==
  /\ callers[c].pc = "done"
  /\ callers' = [callers EXCEPT ![c] = NoCall]
  /\ UNCHANGED Engine

FlaskNext ==
  \E c \in Callers :
    \/ ChatBegin(c)
    \/ ChatSearch(c)
    \/ ChatReturn(c)
    \/ ChatNext(c)

FlaskSpec == FlaskInit /\ [][FlaskNext]_vars

\* the application as create_flask_app builds it, over FAQ_DATA
DroneInit ==
  /\ program = "flask"
  /\ faq_data = FAQ_DATA
  /\ supplied = FactoryWeights
  /\ matcher = HybridMatcher(supplied)
  /\ request = <<>>
  /\ running = TRUE
  /\ op = Idle
  /\ result = <<>>
  /\ calls = <<>>
  /\ served = 0
  /\ callers = [c \in Callers |-> NoCall]

DroneSpec == DroneInit /\ [][FlaskNext]_vars

\* the scores an injected MatcherStrategy returns: negative, zero, below and
\* above the threshold
InjectedScores == { Minus(Tenths(5)), FZero, F03, FOne }

\* a MatcherStrategy subclass supplied by the caller, as the scores its
\* calculate_score returns for the entries
InjectedMatchers ==
  { [kind |-> "injected", scores |-> f] :
      f \in [{EntryPool[1], EntryPool[3], EntryPool[4]} -> InjectedScores] }

\* FAQDatabase(faq_data, matcher) built on an injected matcher
InjectedInit ==
  /\ program = "library"
  /\ matcher \in InjectedMatchers
  /\ faq_data \in { c \in Catalogues : \A i \in 1..Len(c) : c[i] \in DOMAIN matcher.scores }
  /\ supplied = None
  /\ request = <<"a", "B">>
  /\ running = TRUE
  /\ op = Idle
  /\ result = <<>>
  /\ calls = <<>>
  /\ served = 0
  /\ callers = <<>>

InjectedNext ==
  \/ FindBestMatch
  \/ GetResponse
  \/ Receive

InjectedSpec == InjectedInit /\ [][InjectedNext]_vars

\* process_query called on a chatbot with default weights over a catalogue of
\* pairwise distinct questions
ExactInit ==
  /\ program = "library"
  /\ faq_data \in ExactCatalogues
  /\ supplied = None
  /\ matcher = HybridMatcher(supplied)
  /\ request \in Requests(program)
  /\ running = TRUE
  /\ op = Idle
  /\ result = <<>>
  /\ calls = <<>>
  /\ served = 0
  /\ callers = <<>>

ExactNext ==
  \/ ProcessQuery
  \/ Receive

ExactSpec == ExactInit /\ [][ExactNext]_vars

\* the matchers called, as run_tests calls them, on one entry of FAQ_DATA
ScoreInit ==
  /\ program = "matchers"
  /\ faq_data \in { <<FAQ_DATA[i]>> : i \in 1..Len(FAQ_DATA) }
  /\ supplied = None
  /\ matcher = HybridMatcher(supplied)
  /\ request \in DroneQuestions
  /\ running = TRUE
  /\ op = Idle
  /\ result = <<>>
  /\ calls = <<>>
  /\ served = 0
  /\ callers = <<>>

ScoreNext ==
  \/ CalculateScore
  \/ Receive

ScoreSpec == ScoreInit /\ [][ScoreNext]_vars

\* ------------------------------------------------------------------------
\* Properties
\* ------------------------------------------------------------------------
Entries == 1..Len(faq_data)

\* the score the database's matcher gives entry i for the input served
Score(i) == matcher_calculate_score(matcher, op.input, faq_data[i])

\* a best-match search has run (the method of app.py or the function of
\* iot_chatbot.py)
Searched == op.name \in {"find_best_match", "iot_find_best_match"}

\* s is a text that is empty or holds whitespace only
Blank(s) == \A k \in 1..Len(s) : s[k] \in Whitespace

\* C1: when at least one entry scores above zero, find_best_match returns
\* an entry of the catalogue whose score no other entry exceeds, together
\* with that entry's score.
C1_BestIsMaximal ==
  (Searched /\ \E i \in Entries : FloatLess(FZero, Score(i))) =>
     /\ result.best_match \in Entries
     /\ result.best_score = Score(result.best_match)
     /\ \A j \in Entries : FloatLeq(Score(j), result.best_score)

\* the second entry of two is returned, the first having scored above zero
C1_Witness ==
  /\ op.name = "find_best_match"
  /\ Len(faq_data) = 2
  /\ result.best_match = 2
  /\ FloatLess(FZero, Score(1))

\* C2: when several entries share the highest score, the one that comes
\* first in catalogue order is returned: no entry before the returned one
\* has the returned score.
C2_FirstOfTies ==
  Searched =>
    \A i \in Entries :
      (FloatLess(FZero, Score(i)) /\ Score(i) = result.best_score)
         => result.best_match \in 1..i

\* two different entries tie at a score above zero and the first is returned
C2_Witness ==
  /\ op.name = "find_best_match"
  /\ Len(faq_data) = 2
  /\ faq_data[1] # faq_data[2]
  /\ FloatLess(FZero, Score(1))
  /\ Score(1) = Score(2)
  /\ result.best_match = 1

\* C3: get_response answers from the catalogue exactly when a best match
\* exists and its score is at least 0.4: a score of exactly 0.4 is answered
\* and every lower score gets the fallback.
C3_ThresholdInclusive ==
  op.name = "get_response" =>
    LET best == find_best_match(faq_data, matcher, op.input)
    IN  /\ (result.question # None)
              <=> (best.best_match # NoMatch /\ ~FloatLess(best.best_score, F04))
        /\ (result.question = None) <=> (result.answer = HELPLINE_MESSAGE)

\* a best score of exactly 0.4 has been answered from the catalogue
C3_Witness ==
  /\ op.name = "get_response"
  /\ result.confidence = F04
  /\ result.question # None

\* C4: process_query on an empty or whitespace-only query returns the error
\* result "Please provide a question." with status "error", and neither
\* get_response nor find_best_match is called.
C4_BlankQueryRejected ==
  (op.name = "process_query" /\ Blank(op.input)) =>
     /\ result = [response |-> PleaseProvide, status |-> "error"]
     /\ \A k \in 1..Len(calls) : calls[k] \notin {"get_response", "find_best_match"}

\* a query of several blanks has been rejected
C4_Witness ==
  /\ op.name = "process_query"
  /\ Len(op.input) >= 2
  /\ Blank(op.input)
  /\ result.status = "error"

\* the text an invocation of handler asks with, None when it reads none
Asked(event) ==
  IF event.httpMethod \in {Absent, "OPTIONS"} \/ handler_raises(event) THEN None
  ELSE LET given == handler_params(event).user_input
       IN  IF given = None THEN <<>> ELSE given

\* C5: in every entry point an empty or whitespace-only input gets a
\* validation result or is skipped; it is never answered with the helpline
\* fallback.
C5_BlankNeverFallback ==
  /\ (op.name = "process_query" /\ Blank(op.input))
        => result.response = PleaseProvide
  /\ (op.name = "console_step" /\ Blank(op.input))
        => result.printed = <<>>
  /\ (op.name = "handler" /\ Blank(Asked(op.input)))
        => result.body.response = PleaseAsk
  /\ (op.name = "iot_main" /\ Blank(op.input))
        => result.printed[2] \notin {HELPLINE_MESSAGE, IOT_HELPLINE_MESSAGE}

\* C6: when no entry reaches the threshold, get_response returns the
\* helpline message and no matched question, with the highest score found
\* as confidence, which is 0.0 when no entry scored above zero.
C6_FallbackShape ==
  (op.name = "get_response" /\ \A i \in Entries : FloatLess(Score(i), F04)) =>
     /\ result.answer = HELPLINE_MESSAGE
     /\ result.question = None
     /\ \A i \in Entries : FloatLeq(Score(i), result.confidence)
     /\ result.confidence \in {FZero} \cup {Score(i) : i \in Entries}

\* the fallback has been returned with the rejected score, above zero
C6_Witness ==
  /\ op.name = "get_response"
  /\ result.answer = HELPLINE_MESSAGE
  /\ FloatLess(FZero, result.confidence)

\* C7: when get_response matches, the answer and the question it returns
\* are those of the one entry find_best_match selected, and the confidence
\* is that entry's score.
C7_MatchFromOneEntry ==
  (op.name = "get_response" /\ result.question # None) =>
     LET match == find_best_match(faq_data, matcher, op.input).best_match
     IN  /\ match \in Entries
         /\ result.answer = faq_data[match].answer
         /\ result.question = faq_data[match].question
         /\ result.confidence = Score(match)

\* a match among two entries that have the same question and two answers
C7_Witness ==
  /\ op.name = "get_response"
  /\ result.question # None
  /\ Len(faq_data) = 2
  /\ faq_data[1].question = faq_data[2].question
  /\ faq_data[1].answer # faq_data[2].answer

\* C8: on an empty catalogue find_best_match returns no match and 0.0 for
\* every query, and get_response and process_query return the fallback for
\* every query that is not blank.
C8_EmptyCatalogue ==
  faq_data = <<>> =>
    /\ Searched => result = [best_match |-> NoMatch, best_score |-> FZero]
    /\ op.name = "get_response"
          => result = [answer |-> HELPLINE_MESSAGE, confidence |-> FZero,
                       question |-> None]
    /\ (op.name = "process_query" /\ op.input # None /\ ~Blank(op.input))
          => result.response = HELPLINE_MESSAGE

\* a query that is not blank has been put to a chatbot with no entries
C8_Witness ==
  /\ faq_data = <<>>
  /\ op.name = "process_query"
  /\ op.input # None
  /\ ~Blank(op.input)
  /\ result.response = HELPLINE_MESSAGE

\* C9: the combined score is similarity_weight * lexical score +
\* keyword_weight * keyword score, the weights being 0.7 and 0.3 when the
\* caller supplied none.
C9_WeightedSum ==
  (op.name = "calculate_score" /\ op.handler = "hybrid") =>
     LET faq_item          == faq_data[1]
         lexical           == SimilarityMatcher_calculate_score(op.input, faq_item)
         keyword           == KeywordMatcher_calculate_score(op.input, faq_item)
         similarity_weight == IF supplied = None THEN F07 ELSE Tenths(supplied[1])
         keyword_weight    == IF supplied = None THEN F03 ELSE Tenths(supplied[2])
         lexical_part      == FloatMul(lexical, similarity_weight)
         keyword_part      == FloatMul(keyword, keyword_weight)
     IN  result.score = FloatAdd(lexical_part, keyword_part)

\* a hybrid score under the default weights, both parts strictly between
\* 0 and 1
C9_Witness ==
  /\ op.name = "calculate_score"
  /\ op.handler = "hybrid"
  /\ supplied = None
  /\ LET faq_item == faq_data[1]
         lexical  == SimilarityMatcher_calculate_score(op.input, faq_item)
         keyword  == KeywordMatcher_calculate_score(op.input, faq_item)
     IN  /\ FloatLess(FZero, lexical) /\ FloatLess(lexical, FOne)
         /\ FloatLess(FZero, keyword) /\ FloatLess(keyword, FOne)

\* the keywords of an entry that occur in the lowercased query
Found(faq_item, user_input) ==
  { k \in 1..Len(faq_item.keywords) : Contains(faq_item.keywords[k], lower(user_input)) }

\* C10: the keyword score is the number of the entry's keywords that occur
\* in the lowercased query divided by the number of its keywords; it is 0.0
\* when the entry has no keywords and lies in [0, 1] otherwise.
C10_KeywordFraction ==
  (op.name = "calculate_score" /\ op.handler = "keyword") =>
     LET faq_item == faq_data[1]
         total    == Len(faq_item.keywords)
         found    == Cardinality(Found(faq_item, op.input))
     IN  /\ total = 0 => result.score = FZero
         /\ total > 0 => /\ result.score = FloatDiv(found, total)
                         /\ FloatLeq(FZero, result.score)
                         /\ FloatLeq(result.score, FOne)

\* some but not all keywords of an entry occur in a query typed in capitals
C10_Witness ==
  /\ op.name = "calculate_score"
  /\ op.handler = "keyword"
  /\ LET faq_item == faq_data[1]
         found    == Cardinality(Found(faq_item, op.input))
     IN  /\ 0 < found /\ found < Len(faq_item.keywords)
         /\ Found(faq_item, op.input) # { k \in 1..Len(faq_item.keywords) :
                                              Contains(faq_item.keywords[k], op.input) }

\* the keyword occurs somewhere in the query, whatever the case the query was
\* typed in: some stretch of the query, lowercased, is the keyword
Occurs(keyword, query) ==
  \E i \in 1..Len(query) : \E j \in i..Len(query) : lower(SubSeq(query, i, j)) = keyword

\* C11: a keyword counts as matched exactly when it occurs anywhere in the
\* lowercased query, inside a longer word included and whatever the case of
\* the query: the keyword score is 0.0 exactly when no keyword occurs in the
\* query and 1.0 exactly when every keyword does, and it is the score of the
\* lowercased query.
C11_KeywordSubstring ==
  (op.name = "calculate_score" /\ op.handler = "keyword" /\ faq_data[1].keywords # <<>>) =>
     /\ (result.score = FZero)
           <=> \A k \in 1..Len(faq_data[1].keywords) : ~Occurs(faq_data[1].keywords[k], op.input)
     /\ (result.score = FOne)
           <=> \A k \in 1..Len(faq_data[1].keywords) : Occurs(faq_data[1].keywords[k], op.input)
     /\ result.score = KeywordMatcher_calculate_score(lower(op.input), faq_data[1])

\* a keyword has matched inside a longer word that was typed in capitals
\* where the keyword has small letters
C11_Witness ==
  /\ op.name = "calculate_score"
  /\ op.handler = "keyword"
  /\ FloatLess(FZero, result.score)
  /\ \A k \in 1..Len(op.input) : op.input[k] \notin Whitespace
  /\ \A k \in 1..Len(faq_data[1].keywords) :
       /\ Len(faq_data[1].keywords[k]) < Len(op.input)
       /\ ~Contains(faq_data[1].keywords[k], op.input)

\* x lies in [0, 1]
InUnitInterval(x) == FloatLeq(FZero, x) /\ FloatLeq(x, FOne)

\* the engine was built with the default weights: none supplied, or the
\* factory's 0.7 and 0.3, or the literals of the procedural copies
DefaultWeighted == supplied \in {None, <<7, 3>>}

\* C12: with the default weights the score find_best_match returns and the
\* confidence get_response and process_query return lie in [0, 1], for every
\* query and every catalogue.
C12_ConfidenceInUnitInterval ==
  DefaultWeighted =>
    /\ Searched => InUnitInterval(result.best_score)
    /\ op.name = "get_response" => InUnitInterval(result.confidence)
    /\ (op.name = "process_query" /\ validate_input(op.input))
          => InUnitInterval(result.confidence)

\* the upper end is reached: lexical score 1.0 and keyword score 1.0 give
\* 0.7 + 0.3, which is exactly 1.0 in binary64
C12_Witness ==
  /\ op.name = "find_best_match"
  /\ supplied = None
  /\ result.best_score = FloatAdd(F07, F03)
  /\ result.best_score = FOne

\* C13: the lexical similarity score lies in [0, 1] for all strings, and is
\* exactly 1.0 when the two strings are non-empty and equal after
\* case-folding; similarity() of iot_chatbot.py gives the same score.
C13_LexicalScoreBounds ==
  (op.name = "calculate_score" /\ op.handler = "similarity") =>
     /\ InUnitInterval(result.score)
     /\ (op.input # <<>> /\ lower(op.input) = lower(faq_data[1].question))
           => result.score = FOne
     /\ result.score = similarity(op.input, faq_data[1].question)

\* a query that differs from the question in case only has scored 1.0
C13_Witness ==
  /\ op.name = "calculate_score"
  /\ op.handler = "similarity"
  /\ op.input # faq_data[1].question
  /\ lower(op.input) = lower(faq_data[1].question)
  /\ result.score = FOne

\* the tokens of a query: its maximal stretches without whitespace
Tokens(s) ==
  { SubSeq(s, p[1], p[2]) :
      p \in { p \in (1..Len(s)) \X (1..Len(s)) :
                /\ p[1] <= p[2]
                /\ \A k \in p[1]..p[2] : s[k] \notin Whitespace
                /\ (p[1] = 1 \/ s[p[1] - 1] \in Whitespace)
                /\ (p[2] = Len(s) \/ s[p[2] + 1] \in Whitespace) } }

\* the entry with t added to its keywords
WithKeyword(faq_item, t) == [faq_item EXCEPT !.keywords = Append(@, t)]

Keywords(faq_item) == { faq_item.keywords[k] : k \in 1..Len(faq_item.keywords) }

C14_LowercaseKeywordMonotone ==
  (op.name = "calculate_score" /\ op.handler = "hybrid" /\ supplied = None) =>
     \A t \in Tokens(op.input) \ Keywords(faq_data[1]) :
        lower(t) = t =>
          FloatLeq(result.score,
                   HybridMatcher_calculate_score(matcher, op.input, WithKeyword(faq_data[1], t)))

\* the engine FAQDatabase(faq_data, HybridMatcher(weights)) as constructed,
\* before it has served anything
FreshMatcher == HybridMatcher(supplied)

\* C15: whatever was asked before (valid, invalid, matched or fallback),
\* find_best_match, get_response and process_query return exactly what a
\* freshly constructed engine with the same catalogue, weights and threshold
\* returns for the same query.
C15_Stateless ==
  /\ op.name = "find_best_match" =>
       result = find_best_match(faq_data, FreshMatcher, op.input)
  /\ op.name = "get_response" =>
       result = get_response(faq_data, FreshMatcher, op.input)
  /\ op.name = "process_query" =>
       result = process_query(faq_data, FreshMatcher, op.handler, op.input)

\* a query has been answered from the catalogue by an engine that had served
\* two inputs before it
C15_Witness ==
  /\ served = 2
  /\ op.name = "process_query"
  /\ op.handler = "json"
  /\ result.status = "success"
  /\ result.matched_question # None

\* the query operations of FAQDatabase and ChatbotAPI
QueryOps == {"find_best_match", "get_response", "process_query", "get_all_questions"}

\* C16: no query operation (find_best_match, get_response, process_query,
\* get_all_questions) changes the catalogue (its entries, their order, each
\* entry's question, answer and keywords) or the matcher's weights; the
\* threshold is the class constant CONFIDENCE_THRESHOLD, which nothing
\* assigns.
C16_QueriesLeaveCatalogue ==
  [][op'.name \in QueryOps => UNCHANGED <<faq_data, matcher, supplied>>]_vars

\* the questions of a two-entry catalogue have been listed after two
\* earlier inputs were served
C16_Witness ==
  /\ served = 2
  /\ op.name = "get_all_questions"
  /\ Len(faq_data) = 2
  /\ result.questions = <<faq_data[1].question, faq_data[2].question>>

\* what find_best_match holds in its locals after the first n entries when
\* it runs alone
SearchedAlone(question, n) ==
  find_best_match(SubSeq(faq_data, 1, n), matcher, question)

\* C17: when several callers run queries at the same time against the same
\* chatbot, under every interleaving each caller's search holds, at every
\* iteration, the best match and best score it would hold if it ran alone,
\* and each caller receives the response process_query gives for its
\* question alone.
C17_ConcurrentCallersIndependent ==
  \A c \in DOMAIN callers :
    /\ callers[c].pc = "search" =>
         /\ callers[c].best_match = SearchedAlone(callers[c].question, callers[c].i - 1).best_match
         /\ callers[c].best_score = SearchedAlone(callers[c].question, callers[c].i - 1).best_score
    /\ callers[c].pc = "done" =>
         callers[c].response =
           [body |-> process_query(faq_data, matcher, "json", callers[c].question),
            code |-> 200]

\* one caller has been answered from the catalogue while another, asking
\* something else, is in the middle of its search with a different best score
C17_Witness ==
  /\ program = "flask"
  /\ callers[1].pc = "done"
  /\ callers[1].response.body.status = "success"
  /\ callers[1].response.body.matched_question # None
  /\ callers[2].pc = "search"
  /\ callers[2].i = 2
  /\ callers[2].question # callers[1].question
  /\ FloatLess(FZero, callers[2].best_score)
  /\ FloatLess(callers[2].best_score, callers[1].response.body.confidence)

\* the formatted result says "error"
ErrorStatus(formatted) == "status" \in DOMAIN formatted /\ formatted.status = "error"

\* C18: a query with no confident match is a normal outcome: process_query
\* returns the fallback message formatted by its handler, with status
\* "success" from JSONResponseHandler and never with status "error"; the
\* error status is returned exactly when validate_input rejects the query.
C18_FallbackIsSuccess ==
  op.name = "process_query" =>
    /\ ErrorStatus(result) <=> ~validate_input(op.input)
    /\ (validate_input(op.input)
          /\ get_response(faq_data, matcher, strip(op.input)).question = None) =>
         /\ result.response = HELPLINE_MESSAGE
         /\ result.matched_question = None
         /\ op.handler = "json" => result.status = "success"

\* a valid query that no entry answers with confidence has been formatted
\* as a success carrying the fallback message
C18_Witness ==
  /\ op.name = "process_query"
  /\ op.handler = "json"
  /\ validate_input(op.input)
  /\ result.status = "success"
  /\ result.matched_question = None
  /\ result.response = HELPLINE_MESSAGE

\* the call of caller c has returned the response to `question`
Answered(c, question) ==
  /\ program = "flask"
  /\ faq_data = FAQ_DATA
  /\ callers[c].pc = "done"
  /\ callers[c].question = question

\* C19: over the drone catalogue with default weights and threshold 0.4,
\* "battery duration" scores above 0.4 against the flight-time entry and is
\* answered with that entry's answer.
C19_BatteryDurationMatches ==
  \A c \in DOMAIN callers :
    Answered(c, BatteryDuration) =>
      /\ FloatLess(F04, matcher_calculate_score(matcher, BatteryDuration, FlightTime))
      /\ callers[c].response.body.matched_question = FlightTime.question
      /\ callers[c].response.body.response = FlightTime.answer

\* C20: over the drone catalogue with default weights, "What is the flight
\* time of this drone?" is matched on the flight-time entry with a
\* confidence of approximately 1.0 (within 0.05 of it).
C20_ExactQuestionFullConfidence ==
  \A c \in DOMAIN callers :
    Answered(c, FlightTime.question) =>
      /\ callers[c].response.body.matched_question = FlightTime.question
      /\ callers[c].response.body.response = FlightTime.answer
      /\ FloatLeq(FloatDiv(95, 100), callers[c].response.body.confidence)
      /\ FloatLeq(callers[c].response.body.confidence, FloatDiv(105, 100))

\* the keyword matcher has scored "What's the weather like today?" against
\* the one entry of faq_data
WeatherKeywordScored ==
  /\ op.name = "calculate_score"
  /\ op.handler = "keyword"
  /\ op.input = WeatherToday
  /\ faq_data[1] \in { FAQ_DATA[i] : i \in 1..Len(FAQ_DATA) }

\* C21 as stated: over the drone catalogue, "What's the weather like today?"
\* has keyword score 0 against each of the eight entries.
C21_WeatherNoKeywordOverlap ==
  WeatherKeywordScored => result.score = FZero

\* C21 as amended: the keyword score of "What's the weather like today?" is
\* 0 against seven of the eight entries and 1/6 against the waterproof entry,
\* whose keyword "weather" occurs in the query.
C21_WeatherKeywordOverlap ==
  WeatherKeywordScored =>
    result.score = IF faq_data[1] = Waterproof THEN FloatDiv(1, 6) ELSE FZero

\* the query has been scored against the waterproof entry, above zero
C21_Witness ==
  /\ WeatherKeywordScored
  /\ faq_data = <<Waterproof>>
  /\ FloatLess(FZero, result.score)

\* caller c has sent "What's the weather like today?" to the drone catalogue
\* and its search or its response is under way
WeatherAsked(c) ==
  /\ program = "flask"
  /\ faq_data = FAQ_DATA
  /\ callers[c].pc \in {"search", "done"}
  /\ callers[c].question = WeatherToday

\* C22: over the drone catalogue with default weights and threshold 0.4,
\* "What's the weather like today?" scores below 0.4 against every entry (so
\* the best score of its search stays below 0.4) and is answered with the
\* fallback message and no matched question.
C22_WeatherFallsBack ==
  \A c \in DOMAIN callers :
    WeatherAsked(c) =>
      /\ supplied = <<7, 3>>
      /\ \A i \in 1..Len(faq_data) :
           FloatLess(matcher_calculate_score(matcher, WeatherToday, faq_data[i]), F04)
      /\ FloatLess(callers[c].best_score, F04)
      /\ callers[c].pc = "done" =>
           /\ callers[c].response.body.response = HELPLINE_MESSAGE
           /\ callers[c].response.body.matched_question = None
           /\ callers[c].response.body.status = "success"

C22_Witness ==
  \E c \in DOMAIN callers :
    /\ WeatherAsked(c)
    /\ callers[c].pc = "done"
    /\ callers[c].best_match # NoMatch
    /\ FAQ_DATA[callers[c].best_match] = Waterproof
    /\ callers[c].response.body.response = HELPLINE_MESSAGE

\* caller c has sent "GPS" to the drone catalogue and its search has visited
\* every entry
GPSSearched(c) ==
  /\ program = "flask"
  /\ faq_data = FAQ_DATA
  /\ callers[c].question = GPS
  /\ \/ callers[c].pc = "done"
     \/ callers[c].pc = "search" /\ callers[c].i > Len(faq_data)

\* C23: over the drone catalogue with default weights, the best match for
\* "GPS" is the entry "Does this drone have GPS?", the keyword score of that
\* entry is 1/4, and the confidence is
\* 0.7 * SimilarityMatcher score + 0.3 * 0.25.
C23_GPSBestMatch ==
  \A c \in DOMAIN callers :
    GPSSearched(c) =>
      /\ callers[c].best_match # NoMatch
      /\ faq_data[callers[c].best_match] = HasGPS
      /\ KeywordMatcher_calculate_score(GPS, HasGPS) = FloatDiv(1, 4)
      /\ callers[c].best_score =
           FloatAdd(FloatMul(F07, SimilarityMatcher_calculate_score(GPS, HasGPS)),
                    FloatMul(F03, FloatDiv(25, 100)))

C23_Witness ==
  \E c \in DOMAIN callers :
    /\ GPSSearched(c)
    /\ callers[c].pc = "search"
    /\ callers[c].best_match = 3
    /\ FloatLess(FZero, callers[c].best_score)

\* C24: at a boundary an exception raised while the request is read or
\* processed is caught and mapped to a generic error result: the serverless
\* handler returns a response for every event, a 500 payload when reading the
\* event raises (a malformed body, a missing field), and the console loop
\* prints the error of a failed input() and keeps running.
C24_BoundariesCatchExceptions ==
  /\ op.name = "handler" =>
       /\ "raised" \notin DOMAIN result
       /\ (handler_raises(op.input) \/ op.input.httpMethod = Absent) =>
            /\ result.statusCode = 500
            /\ result.body.response = <<"Error: ">>
  /\ (op.name = "console_step" /\ op.input = EOFError) =>
       /\ running
       /\ result.printed = <<"Error: ">>

\* the user_input the serverless handler passes to its find_best_match
EventQuery(event) ==
  strip(IF handler_params(event).user_input = None THEN <<>>
        ELSE handler_params(event).user_input)

\* the procedural copy has searched for a query that is not blank
ProceduralSearched ==
  \/ op.name = "iot_find_best_match" /\ op.input # <<>>
  \/ op.name = "iot_main" /\ strip(op.input) # <<>> /\ lower(strip(op.input)) \notin ExitWords
  \/ /\ op.name = "handler"
     /\ op.input.httpMethod \notin {Absent, "OPTIONS"}
     /\ ~handler_raises(op.input)
     /\ EventQuery(op.input) # <<>>

\* the query it searched for
ProceduralQuery ==
  IF op.name = "iot_find_best_match" THEN op.input
  ELSE IF op.name = "iot_main" THEN strip(op.input)
  ELSE EventQuery(op.input)

\* what the OOP engine with default weights returns for that query
EngineResponse == get_response(faq_data, HybridMatcher(None), ProceduralQuery)

\* C25: for every non-empty query over the same catalogue, the procedural
\* copies (iot_chatbot.py, netlify/functions/chat.py) select the entry the
\* OOP engine with default weights selects, with the same score, and answer
\* with that entry's answer exactly when the engine does, with the fallback
\* otherwise.
C25_ProceduralCopiesAgree ==
  ProceduralSearched =>
    /\ op.name = "iot_find_best_match" =>
         /\ result = find_best_match(faq_data, HybridMatcher(None), ProceduralQuery)
         /\ iot_reply(faq_data, result).printed[2] = IOT_HELPLINE_MESSAGE
              <=> ~Accepts(result.best_match, result.best_score)
    /\ op.name = "iot_main" =>
         result.printed[2] = IF EngineResponse.question = None THEN IOT_HELPLINE_MESSAGE
                             ELSE EngineResponse.answer
    /\ op.name = "handler" =>
         /\ result.statusCode = 200
         /\ result.body.response = EngineResponse.answer

C25_Witness ==
  /\ ProceduralSearched
  /\ op.name = "iot_find_best_match"
  /\ Len(faq_data) = 2
  /\ result.best_match = 2
  /\ FloatLeq(F04, result.best_score)
  /\ EngineResponse.answer = faq_data[2].answer

\* the line ends the console loop: an exit word once stripped and
\* lower-cased, or a keyboard interrupt at the prompt
EndsLoop(line) ==
  \/ line = KeyboardInterrupt
  \/ line # EOFError /\ lower(strip(line)) \in ExitWords

\* the names of the matching engine's entry points among the calls made
EngineCalls == { "process_query", "get_response", "find_best_match" }

\* C26: the console loop has ended only if the last input was exit, quit or
\* bye (stripped, lower-cased) or a keyboard interrupt; after every other
\* input (help, an empty line, a fallback answer, an input() that raised) the
\* loop is still running; help and empty lines make no call of the matching
\* engine.
C26_ConsoleLoopEndsOnExit ==
  program = "app_console" =>
    /\ ~running => (op.name = "console_step" /\ EndsLoop(op.input))
    /\ op.name = "console_step" =>
         /\ running <=> ~EndsLoop(op.input)
         /\ op.input = EOFError => result.printed = <<"Error: ">>
         /\ (op.input # EOFError /\ (lower(strip(op.input)) = Help \/ strip(op.input) = <<>>)) =>
              \A k \in 1..Len(calls) : calls[k] \notin EngineCalls

C26_Witness ==
  /\ program = "app_console"
  /\ op.name = "console_step"
  /\ op.input = EOFError
  /\ served > 0
  /\ running

\* process_query has answered, under default weights, a query equal to the
\* question of entry i up to letter case and surrounding whitespace, over a
\* catalogue of pairwise distinct questions
AskedQuestionOf(i) ==
  /\ op.name = "process_query"
  /\ supplied = None
  /\ faq_data \in ExactCatalogues
  /\ i \in 1..Len(faq_data)
  /\ op.input # None
  /\ lower(strip(op.input)) = lower(faq_data[i].question)

\* C27 as claimed: asking an entry's question returns that entry's answer,
\* never the fallback and never another entry's answer.
C27_ExactQuestionOwnAnswer ==
  \A i \in 1..MaxEntries :
    AskedQuestionOf(i) =>
      /\ result.matched_question = faq_data[i].question
      /\ result.response = faq_data[i].answer

\* entry j scores higher than entry i for the query, or scores the same and
\* stands before it
Outscores(j, i, query) ==
  \/ FloatLess(matcher_calculate_score(matcher, query, faq_data[i]),
               matcher_calculate_score(matcher, query, faq_data[j]))
  \/ /\ j < i
     /\ matcher_calculate_score(matcher, query, faq_data[i])
          = matcher_calculate_score(matcher, query, faq_data[j])

\* C27: asking an entry's question never returns the fallback: the
\* confidence is at least 0.7 and the answer is that entry's, unless another
\* entry scores higher (or the same, earlier in the catalogue), whose answer
\* is then returned.
C27_ExactQuestionAnswered ==
  \A i \in 1..MaxEntries :
    AskedQuestionOf(i) =>
      /\ result.matched_question # None
      /\ result.response # HELPLINE_MESSAGE
      /\ FloatLeq(F07, result.confidence)
      /\ \/ /\ result.matched_question = faq_data[i].question
            /\ result.response = faq_data[i].answer
            /\ \A j \in 1..Len(faq_data) : ~Outscores(j, i, strip(op.input))
         \/ \E j \in 1..Len(faq_data) :
              /\ Outscores(j, i, strip(op.input))
              /\ result.matched_question = faq_data[j].question
              /\ result.response = faq_data[j].answer

C27_Witness ==
  /\ AskedQuestionOf(1)
  /\ faq_data = <<ShortEntry, EntryPool[1]>>
  /\ op.input = <<" ", "a">>
  /\ result.response = EntryPool[1].answer

\* C28: for an injected matcher, one returning zero or negative scores
\* included, find_best_match returns no entry exactly when the score it
\* returns is 0.0, and the score returned with an entry is strictly greater
\* than 0 (and is the score the matcher gave that entry).
C28_NoMatchIffZeroScore ==
  (op.name = "find_best_match" /\ matcher.kind = "injected") =>
    /\ result.best_match = NoMatch <=> result.best_score = FZero
    /\ result.best_match # NoMatch =>
         /\ FloatGreater(result.best_score, FZero)
         /\ result.best_score = matcher.scores[faq_data[result.best_match]]
    /\ result.best_match = NoMatch =>
         \A i \in 1..Len(faq_data) : ~FloatGreater(matcher.scores[faq_data[i]], FZero)

C28_Witness ==
  /\ op.name = "find_best_match"
  /\ matcher.kind = "injected"
  /\ Len(faq_data) = 2
  /\ matcher.scores[faq_data[1]] = Minus(Tenths(5))
  /\ matcher.scores[faq_data[2]] = FZero
  /\ result.best_match = NoMatch

\* process_query has returned a JSON response to a valid query
JSONAnswered ==
  /\ op.name = "process_query"
  /\ op.handler = "json"
  /\ result.status = "success"

\* C29: in a JSON response a reported confidence of 0.40 or more comes only
\* with a matched answer and a matched_question that is not null, and every
\* fallback response reports a confidence below 0.40.
C29_ReportedConfidenceSplits ==
  JSONAnswered =>
    /\ FloatLeq(FloatDiv(40, 100), result.confidence) =>
         /\ result.matched_question # None
         /\ result.response # HELPLINE_MESSAGE
    /\ result.matched_question = None => FloatLess(result.confidence, FloatDiv(40, 100))

\* C29: in a JSON response a reported confidence above 0.40 comes only with
\* a matched answer and a matched_question that is not null, a reported
\* confidence below 0.40 only with the fallback, and every fallback response
\* reports a confidence of at most 0.40: a best score just below the
\* threshold is a fallback whose confidence rounds to 0.4.
C29_ReportedConfidenceRounded ==
  JSONAnswered =>
    /\ FloatLess(FloatDiv(40, 100), result.confidence) =>
         /\ result.matched_question # None
         /\ result.response # HELPLINE_MESSAGE
    /\ FloatLess(result.confidence, FloatDiv(40, 100)) =>
         /\ result.matched_question = None
         /\ result.response = HELPLINE_MESSAGE
    /\ result.matched_question = None => FloatLeq(result.confidence, FloatDiv(40, 100))

C29_Witness ==
  /\ JSONAnswered
  /\ result.matched_question = None
  /\ result.response = HELPLINE_MESSAGE
  /\ result.confidence = FloatDiv(40, 100)
  /\ FloatLess(find_best_match(faq_data, matcher, strip(op.input)).best_score, F04)

\* C30: process_query ignores the whitespace around the query: what it
\* returns for q (the answer, the confidence, the matched question, or the
\* validation error) is what it returns for q with the surrounding
\* whitespace removed.
C30_SurroundingWhitespaceIgnored ==
  (op.name = "process_query" /\ op.input # None) =>
    result = process_query(faq_data, matcher, op.handler, strip(op.input))

C30_Witness ==
  /\ op.name = "process_query"
  /\ op.input = <<" ", "B", "a">>
  /\ result.matched_question = <<"B", "a">>
  /\ result.confidence # FOne

====
